---------------------------- MODULE Spec2Model ----------------------------
(***************************************************************************)
(* State-machine model of teletraan/httpx:                                 *)
(*   - auth.JWTToken            (NewJWTToken, SetExpireTime, Valid)         *)
(*   - auth.TokenAuthTransport  (cloneRequest, RoundTrip)                   *)
(*   - httpx.Client.Do          (dispatch, classification, decoding)        *)
(* Each of the three parts has its own specification (SpecJWT, SpecRT,      *)
(* SpecDo); the variables of the other parts stay at their idle values.     *)
(***************************************************************************)
EXTENDS Integers, Sequences, FiniteSets, TLC

VARIABLES
    \* ---- JWTToken ----
    token,      \* the compact token string handed to NewJWTToken
    expClaim,   \* JSON value of the "exp" member carried by payload chunk "e"
    jwtPc,      \* "new" | "built" | "failed" | "panicked"
    tok,        \* the *JWTToken returned: [isNil, token, expiredAt]
    now,        \* time.Now().Unix()
    validRet,   \* "true"/"false": answer of a Valid() call made at the current instant
    \* ---- TokenAuthTransport ----
    source,     \* t.Source: "nil" or "set"
    hdrMaps,    \* heap of http.Header maps: address -> [key -> slice address]
    slices,     \* heap of []string value lists: address -> sequence
    origHeader0,\* contents of the caller's header before any dispatch
    rtPc,       \* per dispatch: position inside RoundTrip
    req2,       \* per dispatch: Header address of the request copy
    tokenRes,   \* per dispatch: result of Source.Token()
    tokenCalls, \* per dispatch: number of Source.Token() calls
    transportCalls, \* per dispatch: number of underlying RoundTrip calls
    sent,       \* per dispatch: header contents the underlying transport saw
    rtRet,      \* per dispatch: what RoundTrip returned
    \* ---- Client.Do ----
    doPc,       \* position inside Do
    target,     \* v: "nil", "writer" (an io.Writer) or "json" (a decode target)
    targetData, \* what has been written into v
    ctxDone,    \* whether ctx.Done() is closed
    status,     \* resp.StatusCode (0: no response)
    body,       \* the response body stream: [data, fails]
    bodyState,  \* "none" | "open" | "closed"
    deferred,   \* whether defer resp.Body.Close() has been registered
    ErrMessage, \* response.ErrMessage
    ioErr,      \* err of the last ReadAll / io.Copy / Decode call
    doRet       \* what Do returned: [resp, err]

jwtVars == <<token, expClaim, jwtPc, tok, now, validRet>>
rtVars  == <<source, hdrMaps, slices, origHeader0, rtPc, req2, tokenRes,
             tokenCalls, transportCalls, sent, rtRet>>
doVars  == <<doPc, target, targetData, ctxDone, status, body, bodyState, deferred,
             ErrMessage, ioErr, doRet>>
vars    == <<jwtVars, rtVars, doVars>>

(* The nil *JWTToken. *)
NilToken == [isNil |-> TRUE, token |-> <<>>, expiredAt |-> 0]

-----------------------------------------------------------------------------
(* Bounds *)
MaxTokLen == 4      \* longest token string, in characters
MaxExp    == 12     \* largest whole "exp" timestamp
MaxNow    == 4      \* largest clock value

NumDispatch == 2    \* concurrent RoundTrip calls sharing one request
MaxBody   == 2      \* longest response body, in bytes

(* Program constant: the safety margin of almostExpired. *)
ExpiryDelta == 10

-----------------------------------------------------------------------------
(* Token strings.  A character is the separator "." or one base64url chunk: *)
(*   "!"  a character outside the base64url alphabet                        *)
(*   "n"  chunk decoding to the JSON text  null                             *)
(*   "o"  chunk decoding to a JSON object without "exp"                     *)
(*   "e"  chunk decoding to the JSON object {"exp": expClaim}               *)
Chars == {".", "!", "n", "o", "e"}

TokenStrings == UNION {[1..n -> Chars] : n \in 0..MaxTokLen}

(* JSON values of "exp": numbers are kept in half units (half = 2 * value)  *)
(* so that a fractional timestamp and its truncation are distinguishable.   *)
ExpHalves == {0, 1} \cup (2 * ExpiryDelta .. 2 * MaxExp + 1)

ExpValues == {[kind |-> "number", half |-> h] : h \in ExpHalves}
             \cup {[kind |-> k, half |-> 0] : k \in {"string", "bool", "null", "object"}}

(* strings.Split(s, "."): always at least one segment. *)
RECURSIVE Split(_)
Split(s) ==
    IF \A i \in 1..Len(s) : s[i] # "."
    THEN <<s>>
    ELSE LET i == CHOOSE k \in 1..Len(s) :
                     s[k] = "." /\ \A j \in 1..(k - 1) : s[j] # "."
         IN  <<SubSeq(s, 1, i - 1)>> \o Split(SubSeq(s, i + 1, Len(s)))

(* base64.URLEncoding.DecodeString of the (re-padded) payload followed by   *)
(* json.Unmarshal into map[string]interface{}.                              *)
(*   err = "base64": a character outside the alphabet                       *)
(*   err = "json"  : empty input, or data after the first top-level value   *)
(*   otherwise the map m: hasExp tells whether m["exp"] is present.         *)
DecodePayload(seg, exp) ==
    IF \E i \in 1..Len(seg) : seg[i] = "!"
    THEN [err |-> "base64", hasExp |-> FALSE, exp |-> exp]
    ELSE IF Len(seg) # 1
    THEN [err |-> "json", hasExp |-> FALSE, exp |-> exp]
    ELSE [err |-> "none", hasExp |-> (seg[1] = "e"), exp |-> exp]

(* int64(f) for a non-negative float64 f = half / 2: truncation. *)
Int64OfHalf(half) == half \div 2

(* JWTToken.SetExpireTime on a token whose expiredAt is 0.                  *)
(* outcome "ok" | "err" | "panic" (failed type assertion ts.(float64)).     *)
SetExpireTime(s, exp) ==
    LET parts == Split(s) IN
    IF Len(parts) # 3
    THEN [outcome |-> "err", expiredAt |-> 0]
    ELSE LET m == DecodePayload(parts[2], exp) IN
         IF m.err # "none"
         THEN [outcome |-> "err", expiredAt |-> 0]
         ELSE IF ~m.hasExp
         THEN [outcome |-> "ok", expiredAt |-> 0]
         ELSE IF m.exp.kind # "number"
         THEN [outcome |-> "panic", expiredAt |-> 0]
         ELSE [outcome |-> "ok", expiredAt |-> Int64OfHalf(m.exp.half)]

(* Mutant of almostExpired: the margin test written with >=. *)
almostExpiredInclusive(t, n) ==
    IF t.expiredAt = 0 THEN TRUE ELSE (n + ExpiryDelta) >= t.expiredAt

(* JWTToken.almostExpired *)
almostExpired(t, n) ==
    IF t.expiredAt = 0 THEN TRUE ELSE (n + ExpiryDelta) > t.expiredAt

(* Mutant of Valid: the expiry is not consulted. *)
ValidNoExpiry(t, n) == ~t.isNil /\ t.token # <<>>

(* JWTToken.Valid *)
Valid(t, n) == ~t.isNil /\ t.token # <<>> /\ ~almostExpired(t, n)

-----------------------------------------------------------------------------
(* JWT actions *)

JWTInit ==
    /\ token \in TokenStrings
    /\ expClaim \in ExpValues
    /\ jwtPc = "new"
    /\ tok = NilToken
    /\ now = 0
    /\ validRet = "none"

(* NewJWTToken(token) *)
NewJWTToken ==
    /\ jwtPc = "new"
    /\ LET r == SetExpireTime(token, expClaim) IN
         /\ jwtPc' = CASE r.outcome = "ok"    -> "built"
                       [] r.outcome = "err"   -> "failed"
                       [] OTHER               -> "panicked"
         /\ tok' = IF r.outcome = "ok"
                   THEN [isNil |-> FALSE, token |-> token, expiredAt |-> r.expiredAt]
                   ELSE NilToken
    /\ UNCHANGED <<token, expClaim, now, validRet>>
    /\ UNCHANGED <<rtVars, doVars>>

(* A caller invokes Valid() on what NewJWTToken returned (possibly nil). *)
CallValid ==
    /\ jwtPc \in {"built", "failed"}
    /\ validRet' = IF Valid(tok, now) THEN "true" ELSE "false"
    /\ UNCHANGED <<token, expClaim, jwtPc, tok, now>>
    /\ UNCHANGED <<rtVars, doVars>>

(* The wall clock advances; an earlier Valid() answer is no longer current. *)
Tick ==
    /\ now < MaxNow
    /\ now' = now + 1
    /\ validRet' = "none"
    /\ UNCHANGED <<token, expClaim, jwtPc, tok>>
    /\ UNCHANGED <<rtVars, doVars>>

JWTNext == NewJWTToken \/ CallValid \/ Tick

-----------------------------------------------------------------------------
(* TokenAuthTransport *)

Dispatches == 1..NumDispatch
Keys       == {"Accept", "Authorization"}
Tokens     == {"t1", "t2"}

(* Addresses.  The allocator hands out fresh addresses; each dispatch draws *)
(* from its own arena, address 0 belongs to the caller's request.           *)
OrigMap      == 0
NoSlice      == <<-1, "none">>
SliceAddr(owner, what) == <<owner, what>>

(* "Token " + t.token *)
AuthValue(tk) == IF tk = "t1" THEN "Token t1" ELSE "Token t2"

(* Value lists a caller may have put into the request. *)
ValueLists == {<<"v1">>, <<"v1", "v2">>}
Absent     == <<"absent">>

(* The contents of the header map at address m: key -> value list. *)
HeaderOf(m) ==
    [k \in Keys |-> IF hdrMaps[m][k] = NoSlice THEN Absent
                    ELSE slices[hdrMaps[m][k]]]

(* Mutant of cloneRequest: the struct copy alone, Header still aliased. *)
cloneRequestAliased(d) ==
    [header |-> OrigMap, maps |-> hdrMaps, slices |-> slices]

(* cloneRequest(r): a new map, and for every key a new value list holding   *)
(* the same strings.  Returns the copy's Header and the heap afterwards.    *)
cloneRequest(d) ==
    LET present == {k \in Keys : hdrMaps[OrigMap][k] # NoSlice}
        newMap  == [k \in Keys |-> IF k \in present THEN SliceAddr(d, k)
                                   ELSE NoSlice]
        copies  == [a \in {SliceAddr(d, k) : k \in present} |->
                       slices[hdrMaps[OrigMap][a[2]]]]
    IN  [header |-> d,
         maps   |-> (d :> newMap) @@ hdrMaps,
         slices |-> copies @@ slices]

(* http.Header.Set(key, value) on the map at address m: h[key] = []string{value} *)
HeaderSet(d, m, key, value) ==
    [maps   |-> [hdrMaps EXCEPT ![m][key] = SliceAddr(d, "set")],
     slices |-> (SliceAddr(d, "set") :> <<value>>) @@ slices]

(* JWTToken.SetAuthorization(req) *)
SetAuthorization(d, m, tk) == HeaderSet(d, m, "Authorization", AuthValue(tk))

NoRet == [resp |-> "none", err |-> "none"]

RTIdle ==
    /\ source = "set"
    /\ hdrMaps = (OrigMap :> [k \in Keys |-> NoSlice])
    /\ slices = <<>>
    /\ origHeader0 = [k \in Keys |-> Absent]
    /\ rtPc = [d \in Dispatches |-> "idle"]
    /\ req2 = [d \in Dispatches |-> -1]
    /\ tokenRes = [d \in Dispatches |-> "none"]
    /\ tokenCalls = [d \in Dispatches |-> 0]
    /\ transportCalls = [d \in Dispatches |-> 0]
    /\ sent = [d \in Dispatches |-> [k \in Keys |-> Absent]]
    /\ rtRet = [d \in Dispatches |-> NoRet]

RTInit ==
    /\ source \in {"nil", "set"}
    /\ \E h \in [Keys -> ValueLists \cup {Absent}] :
         /\ origHeader0 = h
         /\ hdrMaps = (OrigMap :> [k \in Keys |-> IF h[k] = Absent THEN NoSlice
                                                  ELSE SliceAddr(OrigMap, k)])
         /\ slices = [a \in {SliceAddr(OrigMap, k) : k \in {kk \in Keys : h[kk] # Absent}}
                        |-> h[a[2]]]
    /\ rtPc = [d \in Dispatches |-> "start"]
    /\ req2 = [d \in Dispatches |-> -1]
    /\ tokenRes = [d \in Dispatches |-> "none"]
    /\ tokenCalls = [d \in Dispatches |-> 0]
    /\ transportCalls = [d \in Dispatches |-> 0]
    /\ sent = [d \in Dispatches |-> [k \in Keys |-> Absent]]
    /\ rtRet = [d \in Dispatches |-> NoRet]

(* RoundTrip, line 57: req2 := cloneRequest(req) *)
Clone(d) ==
    /\ rtPc[d] = "start"
    /\ LET c == cloneRequest(d) IN
         /\ req2' = [req2 EXCEPT ![d] = c.header]
         /\ hdrMaps' = c.maps
         /\ slices' = c.slices
    /\ rtPc' = [rtPc EXCEPT ![d] = "cloned"]
    /\ UNCHANGED <<source, origHeader0, tokenRes, tokenCalls, transportCalls, sent, rtRet>>
    /\ UNCHANGED <<jwtVars, doVars>>

(* RoundTrip, lines 58-60: if t.Source == nil { return nil, errors.New(...) } *)
CheckSource(d) ==
    /\ rtPc[d] = "cloned"
    /\ IF source = "nil"
       THEN /\ rtPc' = [rtPc EXCEPT ![d] = "done"]
            /\ rtRet' = [rtRet EXCEPT ![d] = [resp |-> "nil", err |-> "source is nil"]]
       ELSE /\ rtPc' = [rtPc EXCEPT ![d] = "token"]
            /\ UNCHANGED rtRet
    /\ UNCHANGED <<source, hdrMaps, slices, origHeader0, req2, tokenRes, tokenCalls,
                   transportCalls, sent>>
    /\ UNCHANGED <<jwtVars, doVars>>

(* Mutant of CallToken: a failed Token() does not end the call. *)
CallTokenIgnoreErr(d) ==
    /\ rtPc[d] = "token"
    /\ tokenCalls' = [tokenCalls EXCEPT ![d] = @ + 1]
    /\ \E r \in Tokens \cup {"err"} :
         /\ tokenRes' = [tokenRes EXCEPT ![d] = r]
         /\ rtPc' = [rtPc EXCEPT ![d] = "stamp"]
         /\ UNCHANGED rtRet
    /\ UNCHANGED <<source, hdrMaps, slices, origHeader0, req2, transportCalls, sent>>
    /\ UNCHANGED <<jwtVars, doVars>>

(* RoundTrip, lines 61-64: token, err := t.Source.Token(); on error return  *)
(* the wrapped error.                                                       *)
CallToken(d) ==
    /\ rtPc[d] = "token"
    /\ tokenCalls' = [tokenCalls EXCEPT ![d] = @ + 1]
    /\ \E r \in Tokens \cup {"err"} :
         /\ tokenRes' = [tokenRes EXCEPT ![d] = r]
         /\ IF r = "err"
            THEN /\ rtPc' = [rtPc EXCEPT ![d] = "done"]
                 /\ rtRet' = [rtRet EXCEPT ![d] =
                                 [resp |-> "nil", err |-> "roundtrip error: token"]]
            ELSE /\ rtPc' = [rtPc EXCEPT ![d] = "stamp"]
                 /\ UNCHANGED rtRet
    /\ UNCHANGED <<source, hdrMaps, slices, origHeader0, req2, transportCalls, sent>>
    /\ UNCHANGED <<jwtVars, doVars>>

(* RoundTrip, line 65: token.SetAuthorization(req2) *)
Stamp(d) ==
    /\ rtPc[d] = "stamp"
    /\ LET h == SetAuthorization(d, req2[d], tokenRes[d]) IN
         /\ hdrMaps' = h.maps
         /\ slices' = h.slices
    /\ rtPc' = [rtPc EXCEPT ![d] = "send"]
    /\ UNCHANGED <<source, origHeader0, req2, tokenRes, tokenCalls, transportCalls,
                   sent, rtRet>>
    /\ UNCHANGED <<jwtVars, doVars>>

(* RoundTrip, line 66: return t.transport().RoundTrip(req2) *)
Send(d) ==
    /\ rtPc[d] = "send"
    /\ transportCalls' = [transportCalls EXCEPT ![d] = @ + 1]
    /\ sent' = [sent EXCEPT ![d] = HeaderOf(req2[d])]
    /\ \E r \in {[resp |-> "resp", err |-> "nil"], [resp |-> "nil", err |-> "transport"]} :
         rtRet' = [rtRet EXCEPT ![d] = r]
    /\ rtPc' = [rtPc EXCEPT ![d] = "done"]
    /\ UNCHANGED <<source, hdrMaps, slices, origHeader0, req2, tokenRes, tokenCalls>>
    /\ UNCHANGED <<jwtVars, doVars>>

RTNext == \E d \in Dispatches :
              Clone(d) \/ CheckSource(d) \/ CallToken(d) \/ Stamp(d) \/ Send(d)

-----------------------------------------------------------------------------
(* Client.Do *)

(* Body bytes: "{" and "}" are JSON structure, "x" is any other byte. *)
Bytes    == {"{", "}", "x"}
Bodies   == [data : UNION {[1..n -> Bytes] : n \in 0..MaxBody}, fails : BOOLEAN]
NoBody   == [data |-> <<>>, fails |-> FALSE]
Statuses == {200, 204, 399, 400, 404, 599, 600}

(* Mutant of HasError: the upper end of the range is excluded. *)
HasErrorBelow599(code) == 400 <= code /\ code < 599

(* Mutant of HasError: only the client errors count. *)
HasErrorClientOnly(code) == 400 <= code /\ code <= 499

(* Response.HasError *)
HasError(code) == 400 <= code /\ code <= 599

(* Mutant of the select: the transport error is always reported. *)
SelectErrTransport(done) == "httpx do error: transport"

(* Do, lines 142-148: the error returned after a failed dispatch. *)
SelectErr(done) ==
    IF done THEN "httpx do error: ctx" ELSE "httpx do error: transport"

(* ioutil.ReadAll(resp.Body): everything up to EOF or to the read error. *)
ReadAll(b) == [data |-> b.data, err |-> IF b.fails THEN "read" ELSE "nil"]

(* io.Copy(w, resp.Body): what reached w, and the error of the copy. *)
IoCopy(b) == [written |-> b.data, err |-> IF b.fails THEN "read" ELSE "nil"]

(* json.NewDecoder(resp.Body).Decode(v): the first JSON value of the stream *)
(* ("{" "}" is the only value of this byte alphabet).                       *)
Decode(b) ==
    IF b.data = <<>>
    THEN [value |-> <<>>, err |-> IF b.fails THEN "read" ELSE "EOF"]
    ELSE IF b.data[1] # "{"
    THEN [value |-> <<>>, err |-> "syntax"]
    ELSE IF Len(b.data) = 1
    THEN [value |-> <<>>, err |-> IF b.fails THEN "read" ELSE "unexpected EOF"]
    ELSE IF b.data[2] = "}"
    THEN [value |-> <<"{", "}">>, err |-> "nil"]
    ELSE [value |-> <<>>, err |-> "syntax"]

(* Mutant of RunDeferred: the deferred Close is missing. *)
RunDeferredNoClose(state, registered) == state

(* The deferred calls run at a return: resp.Body.Close() once registered. *)
RunDeferred(state, registered) == IF registered THEN "closed" ELSE state

NoDoRet == [resp |-> "none", err |-> "none"]

DoIdle ==
    /\ doPc = "idle"
    /\ target = "nil"
    /\ targetData = <<>>
    /\ ctxDone = FALSE
    /\ status = 0
    /\ body = NoBody
    /\ bodyState = "none"
    /\ deferred = FALSE
    /\ ErrMessage = <<>>
    /\ ioErr = "none"
    /\ doRet = NoDoRet

DoInit ==
    /\ doPc = "call"
    /\ target \in {"nil", "writer", "json"}
    /\ targetData = <<>>
    /\ ctxDone \in BOOLEAN
    /\ status = 0
    /\ body = NoBody
    /\ bodyState = "none"
    /\ deferred = FALSE
    /\ ErrMessage = <<>>
    /\ ioErr = "none"
    /\ doRet = NoDoRet

(* Do, lines 134-136: if v == nil { return nil, errors.New("v must not nil") } *)
DoCall ==
    /\ doPc = "call"
    /\ IF target = "nil"
       THEN /\ doRet' = [resp |-> "nil", err |-> "v must not nil"]
            /\ bodyState' = RunDeferred(bodyState, deferred)
            /\ doPc' = "done"
       ELSE /\ doPc' = "dispatch"
            /\ UNCHANGED <<doRet, bodyState>>
    /\ UNCHANGED <<target, targetData, ctxDone, status, body, deferred, ErrMessage, ioErr>>
    /\ UNCHANGED <<jwtVars, rtVars>>

(* Do, lines 138-151: resp, err := c.httpClient.Do(req); on success the     *)
(* Close is deferred and the envelope is built.                             *)
Dispatch ==
    /\ doPc = "dispatch"
    /\ \/ /\ doPc' = "select"
          /\ UNCHANGED <<status, body, bodyState, deferred>>
       \/ \E s \in Statuses, b \in Bodies :
            /\ status' = s
            /\ body' = b
            /\ bodyState' = "open"
            /\ deferred' = TRUE
            /\ doPc' = "classify"
    /\ UNCHANGED <<target, targetData, ctxDone, ErrMessage, ioErr, doRet>>
    /\ UNCHANGED <<jwtVars, rtVars>>

(* The caller's context is cancelled or times out. *)
Cancel ==
    /\ doPc # "done"
    /\ ~ctxDone
    /\ ctxDone' = TRUE
    /\ UNCHANGED <<doPc, target, targetData, status, body, bodyState, deferred,
                   ErrMessage, ioErr, doRet>>
    /\ UNCHANGED <<jwtVars, rtVars>>

(* Do, lines 139-149: the dispatch failed. *)
Select ==
    /\ doPc = "select"
    /\ doRet' = [resp |-> "nil", err |-> SelectErr(ctxDone)]
    /\ bodyState' = RunDeferred(bodyState, deferred)
    /\ doPc' = "done"
    /\ UNCHANGED <<target, targetData, ctxDone, status, body, deferred, ErrMessage, ioErr>>
    /\ UNCHANGED <<jwtVars, rtVars>>

(* Do, lines 153 and 163: which branch handles the response. *)
Classify ==
    /\ doPc = "classify"
    /\ doPc' = IF HasError(status) THEN "readErrBody"
               ELSE IF target = "writer" THEN "copy"
               ELSE "decode"
    /\ UNCHANGED <<target, targetData, ctxDone, status, body, bodyState, deferred,
                   ErrMessage, ioErr, doRet>>
    /\ UNCHANGED <<jwtVars, rtVars>>

(* Do, lines 154-160: the application error. *)
ReadErrBody ==
    /\ doPc = "readErrBody"
    /\ LET r == ReadAll(body) IN
         /\ ioErr' = r.err
         /\ IF r.err # "nil"
            THEN /\ doRet' = [resp |-> "nil", err |-> "httpx do error: read"]
                 /\ UNCHANGED ErrMessage
            ELSE /\ ErrMessage' = r.data
                 /\ doRet' = [resp |-> "nil", err |-> "envelope"]
    /\ bodyState' = RunDeferred(bodyState, deferred)
    /\ doPc' = "done"
    /\ UNCHANGED <<target, targetData, ctxDone, status, body, deferred>>
    /\ UNCHANGED <<jwtVars, rtVars>>

(* Do, lines 163-166: v is an io.Writer; the result of io.Copy is dropped. *)
Copy ==
    /\ doPc = "copy"
    /\ LET r == IoCopy(body) IN
         /\ targetData' = targetData \o r.written
         /\ ioErr' = r.err
    /\ doRet' = [resp |-> "response", err |-> "nil"]
    /\ bodyState' = RunDeferred(bodyState, deferred)
    /\ doPc' = "done"
    /\ UNCHANGED <<target, ctxDone, status, body, deferred, ErrMessage>>
    /\ UNCHANGED <<jwtVars, rtVars>>

(* Do, lines 168-171: JSON decoding; io.EOF is not an error. *)
DecodeBody ==
    /\ doPc = "decode"
    /\ LET r == Decode(body) IN
         /\ ioErr' = r.err
         /\ targetData' = IF r.err = "nil" THEN r.value ELSE targetData
         /\ doRet' = IF r.err # "nil" /\ r.err # "EOF"
                     THEN [resp |-> "response", err |-> r.err]
                     ELSE [resp |-> "response", err |-> "nil"]
    /\ bodyState' = RunDeferred(bodyState, deferred)
    /\ doPc' = "done"
    /\ UNCHANGED <<target, ctxDone, status, body, deferred, ErrMessage>>
    /\ UNCHANGED <<jwtVars, rtVars>>

DoNext == DoCall \/ Dispatch \/ Cancel \/ Select \/ Classify \/ ReadErrBody
          \/ Copy \/ DecodeBody

-----------------------------------------------------------------------------
(* Properties of JWTToken *)

Segments == Split(token)

(* The token has three segments and its payload decodes to {"exp": T} with  *)
(* T a number (T = expClaim.half / 2).                                      *)
PayloadIsExp ==
    /\ Len(Segments) = 3
    /\ Segments[2] = <<"e">>
    /\ expClaim.kind = "number"

(* No expiry is discoverable: not three segments, or a payload that does    *)
(* not decode to an object with an "exp" member.                            *)
NoExpiryDiscoverable ==
    \/ Len(Segments) # 3
    \/ Segments[2] # <<"e">>

(* C2, as stated: for a token whose payload is {"exp": T}, Valid() is true  *)
(* when now < T - 10 and false when now >= T - 10.                          *)
C2_ValidStrictlyBeforeMargin ==
    (PayloadIsExp /\ jwtPc = "built" /\ validRet # "none") =>
        /\ (2 * now <  expClaim.half - 2 * ExpiryDelta) => validRet = "true"
        /\ (2 * now >= expClaim.half - 2 * ExpiryDelta) => validRet = "false"

(* C2, amended: for a token whose payload is {"exp": T}, Valid() is true    *)
(* when now <= T - 10 and false when now > T - 10: the instant T - 10       *)
(* itself is still valid.                                                   *)
C2_ValidUpToMargin ==
    (PayloadIsExp /\ jwtPc = "built" /\ validRet # "none") =>
        /\ (2 * now <= expClaim.half - 2 * ExpiryDelta) => validRet = "true"
        /\ (2 * now >  expClaim.half - 2 * ExpiryDelta) => validRet = "false"

(* Valid() was called exactly at now = T - 10 and answered true. *)
C2_Witness ==
    /\ PayloadIsExp
    /\ jwtPc = "built"
    /\ 2 * now = expClaim.half - 2 * ExpiryDelta
    /\ now > 0
    /\ validRet = "true"

(* C7: a token without exactly three segments fails construction and yields *)
(* no token; and whenever no expiry is discoverable, no Valid() call, at    *)
(* any time, answers true.                                                  *)
C7_NoExpiryNeverValid ==
    /\ (Len(Segments) # 3 /\ jwtPc # "new") => (jwtPc = "failed" /\ tok.isNil)
    /\ NoExpiryDiscoverable => validRet # "true"

(* A token with a well-formed payload without "exp" was built, time has     *)
(* passed and Valid() answered false.                                       *)
C7_Witness ==
    /\ Len(Segments) = 3
    /\ Segments[2] = <<"o">>
    /\ jwtPc = "built"
    /\ ~tok.isNil
    /\ now > 0
    /\ validRet = "false"

(* C10: NewJWTToken is total: it ends with a token or with an error, and    *)
(* never aborts with a runtime panic.                                       *)
C10_NewJWTTokenTotal == jwtPc # "panicked"

-----------------------------------------------------------------------------
(* Properties of TokenAuthTransport.RoundTrip *)

Stamped(d) == rtPc[d] \in {"send", "done"} /\ tokenRes[d] \in Tokens

(* C1: whatever the interleaving, the caller's header map and value lists   *)
(* are what they were before the calls, and every dispatch's copy holds the *)
(* caller's headers plus, once stamped, its own authorization only.         *)
C1_CopyIsolation ==
    /\ HeaderOf(OrigMap) = origHeader0
    /\ \A k \in Keys : origHeader0[k] # Absent =>
           /\ hdrMaps[OrigMap][k] = SliceAddr(OrigMap, k)
           /\ slices[SliceAddr(OrigMap, k)] = origHeader0[k]
    /\ \A d \in Dispatches :
           /\ (rtPc[d] # "start" /\ ~Stamped(d)) =>
                  HeaderOf(req2[d]) = origHeader0
           /\ Stamped(d) =>
                  HeaderOf(req2[d]) =
                      [origHeader0 EXCEPT !["Authorization"] = <<AuthValue(tokenRes[d])>>]
           /\ transportCalls[d] = 1 =>
                  sent[d] = [origHeader0 EXCEPT !["Authorization"] = <<AuthValue(tokenRes[d])>>]

(* Two dispatches of a request that already carried an Authorization header *)
(* both went out, stamped with different tokens.                            *)
C1_Witness ==
    /\ origHeader0["Authorization"] # Absent
    /\ rtPc[1] = "done" /\ rtPc[2] = "done"
    /\ rtRet[1].resp = "resp" /\ rtRet[2].resp = "resp"
    /\ tokenRes[1] = "t1" /\ tokenRes[2] = "t2"

(* C6: in every RoundTrip the underlying transport is invoked at most once, *)
(* and only after a non-nil Source and one successful Token() call; with a  *)
(* nil Source, or a failed Token(), the call ends in the corresponding      *)
(* error without a second Token() call and without the transport.           *)
C6_TransportOnlyAfterToken ==
    \A d \in Dispatches :
        /\ transportCalls[d] <= 1
        /\ tokenCalls[d] <= 1
        /\ transportCalls[d] = 1 =>
               (source = "set" /\ tokenCalls[d] = 1 /\ tokenRes[d] \in Tokens)
        /\ (source = "nil" /\ rtPc[d] = "done") =>
               /\ rtRet[d] = [resp |-> "nil", err |-> "source is nil"]
               /\ tokenCalls[d] = 0
               /\ transportCalls[d] = 0
        /\ tokenRes[d] = "err" =>
               /\ rtPc[d] = "done"
               /\ rtRet[d] = [resp |-> "nil", err |-> "roundtrip error: token"]
               /\ tokenCalls[d] = 1
               /\ transportCalls[d] = 0

(* One dispatch failed on Token(), another went through the transport. *)
C6_Witness ==
    /\ tokenRes[1] = "err" /\ rtPc[1] = "done"
    /\ transportCalls[2] = 1 /\ rtPc[2] = "done"

-----------------------------------------------------------------------------
(* Properties of Client.Do *)

Received       == bodyState # "none"
InErrorRange   == 400 <= status /\ status <= 599
TargetWritten  == targetData # <<>>
EnvelopeAsErr  == doRet.err = "envelope"
DispatchFailed == doRet.err \in {"httpx do error: ctx", "httpx do error: transport"}

(* C3, as stated: every response with a status in 400..599 ends with the    *)
(* full body in ErrMessage and the envelope returned as the error, a nil    *)
(* response and an untouched target; no other status returns the envelope.  *)
C3_ErrorStatusReturnsEnvelope ==
    (doPc = "done" /\ Received) =>
        /\ InErrorRange =>
               /\ EnvelopeAsErr
               /\ ErrMessage = body.data
               /\ doRet.resp = "nil"
               /\ ~TargetWritten
        /\ ~InErrorRange => ~EnvelopeAsErr

(* C3, amended: every response with a status in 400..599 fails the call     *)
(* with a nil response and an untouched target; the error is the envelope   *)
(* holding the full body when the body could be read, and the wrapped read  *)
(* error (ErrMessage left empty) when reading the body failed.  No other    *)
(* status returns the envelope.                                             *)
C3_ErrorStatusFailsCall ==
    (doPc = "done" /\ Received) =>
        /\ InErrorRange =>
               /\ doRet.resp = "nil"
               /\ ~TargetWritten
               /\ ~body.fails => (EnvelopeAsErr /\ ErrMessage = body.data)
               /\ body.fails => (doRet.err = "httpx do error: read" /\ ErrMessage = <<>>)
        /\ ~InErrorRange => ~EnvelopeAsErr

(* A 599 response with a non-empty readable body ended as the envelope. *)
C3_Witness ==
    /\ doPc = "done"
    /\ status = 599
    /\ ~body.fails
    /\ body.data # <<>>
    /\ EnvelopeAsErr
    /\ ErrMessage = body.data

(* C4, as stated: after a response, exactly one of "target filled" and     *)
(* "error message captured" holds, the latter iff the status is in         *)
(* 400..599.                                                                *)
C4_ExactlyOnePopulated ==
    (doPc = "done" /\ Received) =>
        /\ TargetWritten # EnvelopeAsErr
        /\ EnvelopeAsErr <=> InErrorRange

(* C4, amended: after a response, at most one of "target filled" and       *)
(* "error message captured" holds: the target is written only for a status *)
(* outside 400..599 and the message captured only for a status inside it;  *)
(* neither is populated for an empty success body, a failed decode or a    *)
(* failed read of the error body.                                           *)
C4_AtMostOnePopulated ==
    (doPc = "done" /\ Received) =>
        /\ ~(TargetWritten /\ EnvelopeAsErr)
        /\ TargetWritten => ~InErrorRange
        /\ (EnvelopeAsErr \/ ErrMessage # <<>>) => InErrorRange
        /\ (InErrorRange /\ ~body.fails) => EnvelopeAsErr

(* A success response with an empty body: neither side is populated. *)
C4_Witness ==
    /\ doPc = "done"
    /\ status = 204
    /\ target = "json"
    /\ body = NoBody
    /\ doRet = [resp |-> "response", err |-> "nil"]
    /\ ~TargetWritten
    /\ ~EnvelopeAsErr

(* C5: once a response was received, its body is closed when Do returns,   *)
(* whatever the exit path.                                                  *)
C5_BodyClosedOnReturn ==
    (doPc = "done" /\ Received) => bodyState = "closed"

(* Do returned a JSON decode error and the body is closed. *)
C5_Witness ==
    /\ doPc = "done"
    /\ doRet = [resp |-> "response", err |-> "syntax"]
    /\ bodyState = "closed"

(* C8: no failure inside Do is suppressed: a failed dispatch, read, copy or *)
(* decode ends in a non-nil error; a nil error with an unfilled target      *)
(* happens only for a clean empty success body.                             *)
C8_NoFailureSuppressed ==
    doPc = "done" =>
        /\ (ioErr \notin {"none", "nil", "EOF"}) => doRet.err # "nil"
        /\ (Received /\ doRet.err = "nil" /\ ~TargetWritten) => body = NoBody

(* C9: when the dispatch has failed, Do returns the wrapped ctx.Err() if    *)
(* the context is done at that point and the wrapped transport error        *)
(* otherwise, with a nil response and the target untouched.                 *)
C9_ContextErrorPreferred ==
    [][(doPc = "select" /\ doPc' = "done") =>
          /\ doRet'.err = IF ctxDone THEN "httpx do error: ctx"
                          ELSE "httpx do error: transport"
          /\ doRet'.resp = "nil"
          /\ targetData' = <<>>
          /\ bodyState' = "none"]_vars

(* The context was cancelled during the call, the dispatch failed and Do   *)
(* returned the context's error.                                            *)
C9_Witness ==
    /\ doPc = "done"
    /\ ctxDone
    /\ doRet = [resp |-> "nil", err |-> "httpx do error: ctx"]
    /\ ~TargetWritten

-----------------------------------------------------------------------------
(* Specifications *)

JWTIdle ==
    /\ token = <<>>
    /\ expClaim = [kind |-> "null", half |-> 0]
    /\ jwtPc = "idle"
    /\ tok = NilToken
    /\ now = 0
    /\ validRet = "none"

InitJWT == JWTInit /\ RTIdle /\ DoIdle
SpecJWT == InitJWT /\ [][JWTNext]_vars

InitRT == RTInit /\ JWTIdle /\ DoIdle
SpecRT == InitRT /\ [][RTNext]_vars

InitDo == DoInit /\ JWTIdle /\ RTIdle
SpecDo == InitDo /\ [][DoNext]_vars

=============================================================================
